---- MODULE Spec2Model ----
(***************************************************************************)
(* Contact REST backend (test-portdata): the ContactController handlers    *)
(* over the contact repository.  Text values (names, phones, path and      *)
(* query parameters) are sequences of characters, so that the regular      *)
(* expressions and Number() are computed character by character.           *)
(***************************************************************************)
EXTENDS Integers, Sequences, FiniteSets, Bags

VARIABLES
    store,      \* the rows of the contact table
    nextId,     \* the table's auto-increment counter
    clock,      \* the current time
    resp,       \* the last response sent, with the request it answers
    prior,      \* the response before it, when that was a 201 of create
    removed,    \* the deletes that were answered 204
    inflight,   \* the requests whose handler is suspended at an await
    subject     \* the request under study

vars == <<store, nextId, clock, resp, prior, removed, inflight, subject>>

(* ---------------------------- bounds ----------------------------------- *)

\* Number of contacts the CRUD specifications create.
MaxId == 2
\* Number of contacts the pagination specification seeds.
MaxSeed == 3
\* Last reading of the clock.
MaxClock == 1
\* Number of requests that can be suspended at once.
MaxTasks == 2

(* ------------------------- JavaScript values --------------------------- *)

\* The value of a key that the request does not carry.
Undefined == <<"undefined">>

\* String(undefined), as RegExp.prototype.test coerces its argument.
StringOf(v) ==
    IF v = Undefined THEN <<"u", "n", "d", "e", "f", "i", "n", "e", "d">> ELSE v

\* Truthiness of a string or undefined: "" and undefined are falsy.
Truthy(v) == v # Undefined /\ v # <<>>

Digits == {"0", "1", "2", "3", "4", "5", "6", "7", "8", "9"}

\* \d
IsDigit(c) == c \in Digits

\* The white space and line terminators of ECMAScript.  A character that has
\* no escape in a module is written by the name of its code point.
WhiteSpace ==
    {" ", "\t", "\n", "\r", "\f",
     "U+000B", "U+00A0", "U+1680", "U+2000", "U+2001", "U+2002", "U+2003",
     "U+2004", "U+2005", "U+2006", "U+2007", "U+2008", "U+2009", "U+200A",
     "U+2028", "U+2029", "U+202F", "U+205F", "U+3000", "U+FEFF"}

\* \s
IsSpace(c) == c \in WhiteSpace

\* \S
IsNonSpace(c) == ~IsSpace(c)

DigitValue(c) ==
    CASE c = "0" -> 0 [] c = "1" -> 1 [] c = "2" -> 2 [] c = "3" -> 3
      [] c = "4" -> 4 [] c = "5" -> 5 [] c = "6" -> 6 [] c = "7" -> 7
      [] c = "8" -> 8 [] c = "9" -> 9

DigitOf(n) ==
    CASE n = 0 -> "0" [] n = 1 -> "1" [] n = 2 -> "2" [] n = 3 -> "3"
      [] n = 4 -> "4" [] n = 5 -> "5" [] n = 6 -> "6" [] n = 7 -> "7"
      [] n = 8 -> "8" [] n = 9 -> "9"

RECURSIVE DecimalValue(_)
DecimalValue(s) ==
    IF Len(s) = 0 THEN 0
    ELSE 10 * DecimalValue(SubSeq(s, 1, Len(s) - 1)) + DigitValue(s[Len(s)])

AllDigits(s) == \A k \in 1..Len(s) : IsDigit(s[k])

\* The digits of the three radix prefixes 0x, 0o and 0b.
RadixDigits(base) ==
    CASE base = 16 -> Digits \cup {"a", "b", "c", "d", "e", "f",
                                   "A", "B", "C", "D", "E", "F"}
      [] base = 8  -> {"0", "1", "2", "3", "4", "5", "6", "7"}
      [] base = 2  -> {"0", "1"}

RadixDigitValue(c) ==
    CASE c \in Digits      -> DigitValue(c)
      [] c \in {"a", "A"}  -> 10 [] c \in {"b", "B"} -> 11
      [] c \in {"c", "C"}  -> 12 [] c \in {"d", "D"} -> 13
      [] c \in {"e", "E"}  -> 14 [] c \in {"f", "F"} -> 15

RECURSIVE RadixValue(_, _)
RadixValue(s, base) ==
    IF Len(s) = 0 THEN 0
    ELSE base * RadixValue(SubSeq(s, 1, Len(s) - 1), base)
            + RadixDigitValue(s[Len(s)])

\* The base that the prefix of s names, 0 when s has no radix prefix.
RadixOf(s) ==
    IF Len(s) < 2 \/ s[1] # "0" THEN 0
    ELSE CASE s[2] \in {"x", "X"} -> 16
           [] s[2] \in {"o", "O"} -> 8
           [] s[2] \in {"b", "B"} -> 2
           [] OTHER -> 0

\* String.prototype.trim, as StringToNumber strips its argument.
Trimmed(s) ==
    LET inked == {k \in 1..Len(s) : ~IsSpace(s[k])}
    IN  IF inked = {} THEN <<>>
        ELSE SubSeq(s, CHOOSE k \in inked : \A j \in inked : k <= j,
                       CHOOSE k \in inked : \A j \in inked : k >= j)

Zeros(n) == [k \in 1..n |-> "0"]

\* s without its leading zeros.
LeadStripped(s) ==
    LET others == {k \in 1..Len(s) : s[k] # "0"}
    IN  IF others = {} THEN <<>>
        ELSE SubSeq(s, CHOOSE k \in others : \A j \in others : k <= j, Len(s))

\* s without its trailing zeros.
TrailStripped(s) ==
    LET others == {k \in 1..Len(s) : s[k] # "0"}
    IN  IF others = {} THEN <<>>
        ELSE SubSeq(s, 1, CHOOSE k \in others : \A j \in others : k >= j)

\* a <= b for two digit sequences read as fractions 0.a and 0.b, and for two
\* digit sequences of one length read as integers.
DigitsLE(a, b) ==
    LET n  == IF Len(a) > Len(b) THEN Len(a) ELSE Len(b)
        pa == a \o Zeros(n - Len(a))
        pb == b \o Zeros(n - Len(b))
        differ == {k \in 1..n : pa[k] # pb[k]}
    IN  \/ differ = {}
        \/ LET k == CHOOSE i \in differ : \A j \in differ : i <= j
           IN  DigitValue(pa[k]) < DigitValue(pb[k])

\* The digits of 0.d / 2, one digit longer than d.
Halved(d) ==
    SubSeq([k \in 1..(Len(d) + 1) |->
               DigitOf(((IF k <= Len(d) THEN DigitValue(d[k]) ELSE 0)
                        + (IF k > 1 /\ DigitValue(d[k - 1]) % 2 = 1
                           THEN 10 ELSE 0))
                       \div 2)],
           1, Len(d) + 1)

RECURSIVE HalvedTimes(_, _)
HalvedTimes(d, n) == IF n = 0 THEN d ELSE Halved(HalvedTimes(d, n - 1))

\* The 53 digits after the point of 2^(-53) = 5^53 / 10^53: half the
\* distance from 1 to the next double above it.
TwoToMinus53 ==
    <<"0", "0", "0", "0", "0", "0", "0", "0", "0", "0", "0", "0", "0", "0",
      "0", "1", "1", "1", "0", "2", "2", "3", "0", "2", "4", "6", "2", "5",
      "1", "5", "6", "5", "4", "0", "4", "2", "3", "6", "3", "1", "6", "6",
      "8", "0", "9", "0", "8", "2", "0", "3", "1", "2", "5">>

\* The 309 digits of 2^1024 - 2^970, half way between the largest double and
\* 2^1024: a magnitude from there on is Infinity.
InfinityFrom ==
    <<"1", "7", "9", "7", "6", "9", "3", "1", "3", "4", "8", "6", "2", "3",
      "1", "5", "8", "0", "7", "9", "3", "7", "2", "8", "9", "7", "1", "4",
      "0", "5", "3", "0", "3", "4", "1", "5", "0", "7", "9", "9", "3", "4",
      "1", "3", "2", "7", "1", "0", "0", "3", "7", "8", "2", "6", "9", "3",
      "6", "1", "7", "3", "7", "7", "8", "9", "8", "0", "4", "4", "4", "9",
      "6", "8", "2", "9", "2", "7", "6", "4", "7", "5", "0", "9", "4", "6",
      "6", "4", "9", "0", "1", "7", "9", "7", "7", "5", "8", "7", "2", "0",
      "7", "0", "9", "6", "3", "3", "0", "2", "8", "6", "4", "1", "6", "6",
      "9", "2", "8", "8", "7", "9", "1", "0", "9", "4", "6", "5", "5", "5",
      "5", "4", "7", "8", "5", "1", "9", "4", "0", "4", "0", "2", "6", "3",
      "0", "6", "5", "7", "4", "8", "8", "6", "7", "1", "5", "0", "5", "8",
      "2", "0", "6", "8", "1", "9", "0", "8", "9", "0", "2", "0", "0", "0",
      "7", "0", "8", "3", "8", "3", "6", "7", "6", "2", "7", "3", "8", "5",
      "4", "8", "4", "5", "8", "1", "7", "7", "1", "1", "5", "3", "1", "7",
      "6", "4", "4", "7", "5", "7", "3", "0", "2", "7", "0", "0", "6", "9",
      "8", "5", "5", "5", "7", "1", "3", "6", "6", "9", "5", "9", "6", "2",
      "2", "8", "4", "2", "9", "1", "4", "8", "1", "9", "8", "6", "0", "8",
      "3", "4", "9", "3", "6", "4", "7", "5", "2", "9", "2", "7", "1", "9",
      "0", "7", "4", "1", "6", "8", "4", "4", "4", "3", "6", "5", "5", "1",
      "0", "7", "0", "4", "3", "4", "2", "7", "1", "1", "5", "5", "9", "6",
      "9", "9", "5", "0", "8", "0", "9", "3", "0", "4", "2", "8", "8", "0",
      "1", "7", "7", "9", "0", "4", "1", "7", "4", "4", "9", "7", "7", "9",
      "2">>

\* The 752 digits of 5^1075; 2^(-1075) = 5^1075 / 10^1075 is half the
\* smallest double.
FiveTo1075 ==
    <<"2", "4", "7", "0", "3", "2", "8", "2", "2", "9", "2", "0", "6", "2",
      "3", "2", "7", "2", "0", "8", "8", "2", "8", "4", "3", "9", "6", "4",
      "3", "4", "1", "1", "0", "6", "8", "6", "1", "8", "2", "5", "2", "9",
      "9", "0", "1", "3", "0", "7", "1", "6", "2", "3", "8", "2", "2", "1",
      "2", "7", "9", "2", "8", "4", "1", "2", "5", "0", "3", "3", "7", "7",
      "5", "3", "6", "3", "5", "1", "0", "4", "3", "7", "5", "9", "3", "2",
      "6", "4", "9", "9", "1", "8", "1", "8", "0", "8", "1", "7", "9", "9",
      "6", "1", "8", "9", "8", "9", "8", "2", "8", "2", "3", "4", "7", "7",
      "2", "2", "8", "5", "8", "8", "6", "5", "4", "6", "3", "3", "2", "8",
      "3", "5", "5", "1", "7", "7", "9", "6", "9", "8", "9", "8", "1", "9",
      "9", "3", "8", "7", "3", "9", "8", "0", "0", "5", "3", "9", "0", "9",
      "3", "9", "0", "6", "3", "1", "5", "0", "3", "5", "6", "5", "9", "5",
      "1", "5", "5", "7", "0", "2", "2", "6", "3", "9", "2", "2", "9", "0",
      "8", "5", "8", "3", "9", "2", "4", "4", "9", "1", "0", "5", "1", "8",
      "4", "4", "3", "5", "9", "3", "1", "8", "0", "2", "8", "4", "9", "9",
      "3", "6", "5", "3", "6", "1", "5", "2", "5", "0", "0", "3", "1", "9",
      "3", "7", "0", "4", "5", "7", "6", "7", "8", "2", "4", "9", "2", "1",
      "9", "3", "6", "5", "6", "2", "3", "6", "6", "9", "8", "6", "3", "6",
      "5", "8", "4", "8", "0", "7", "5", "7", "0", "0", "1", "5", "8", "5",
      "7", "6", "9", "2", "6", "9", "9", "0", "3", "7", "0", "6", "3", "1",
      "1", "9", "2", "8", "2", "7", "9", "5", "5", "8", "5", "5", "1", "3",
      "3", "2", "9", "2", "7", "8", "3", "4", "3", "3", "8", "4", "0", "9",
      "3", "5", "1", "9", "7", "8", "0", "1", "5", "5", "3", "1", "2", "4",
      "6", "5", "9", "7", "2", "6", "3", "5", "7", "9", "5", "7", "4", "6",
      "2", "2", "7", "6", "6", "4", "6", "5", "2", "7", "2", "8", "2", "7",
      "2", "2", "0", "0", "5", "6", "3", "7", "4", "0", "0", "6", "4", "8",
      "5", "4", "9", "9", "9", "7", "7", "0", "9", "6", "5", "9", "9", "4",
      "7", "0", "4", "5", "4", "0", "2", "0", "8", "2", "8", "1", "6", "6",
      "2", "2", "6", "2", "3", "7", "8", "5", "7", "3", "9", "3", "4", "5",
      "0", "7", "3", "6", "3", "3", "9", "0", "0", "7", "9", "6", "7", "7",
      "6", "1", "9", "3", "0", "5", "7", "7", "5", "0", "6", "7", "4", "0",
      "1", "7", "6", "3", "2", "4", "6", "7", "3", "6", "0", "0", "9", "6",
      "8", "9", "5", "1", "3", "4", "0", "5", "3", "5", "5", "3", "7", "4",
      "5", "8", "5", "1", "6", "6", "6", "1", "1", "3", "4", "2", "2", "3",
      "7", "6", "6", "6", "7", "8", "6", "0", "4", "1", "6", "2", "1", "5",
      "9", "6", "8", "0", "4", "6", "1", "9", "1", "4", "4", "6", "7", "2",
      "9", "1", "8", "4", "0", "3", "0", "0", "5", "3", "0", "0", "5", "7",
      "5", "3", "0", "8", "4", "9", "0", "4", "8", "7", "6", "5", "3", "9",
      "1", "7", "1", "1", "3", "8", "6", "5", "9", "1", "6", "4", "6", "2",
      "3", "9", "5", "2", "4", "9", "1", "2", "6", "2", "3", "6", "5", "3",
      "8", "8", "1", "8", "7", "9", "6", "3", "6", "2", "3", "9", "3", "7",
      "3", "2", "8", "0", "4", "2", "3", "8", "9", "1", "0", "1", "8", "6",
      "7", "2", "3", "4", "8", "4", "9", "7", "6", "6", "8", "2", "3", "5",
      "0", "8", "9", "8", "6", "3", "3", "8", "8", "5", "8", "7", "9", "2",
      "5", "6", "2", "8", "3", "0", "2", "7", "5", "5", "9", "9", "5", "6",
      "5", "7", "5", "2", "4", "4", "5", "5", "5", "0", "7", "2", "5", "5",
      "1", "8", "9", "3", "1", "3", "6", "9", "0", "8", "3", "6", "2", "5",
      "4", "7", "7", "9", "1", "8", "6", "9", "4", "8", "6", "6", "7", "9",
      "9", "4", "9", "6", "8", "3", "2", "4", "0", "4", "9", "7", "0", "5",
      "8", "2", "1", "0", "2", "8", "5", "1", "3", "1", "8", "5", "4", "5",
      "1", "3", "9", "6", "2", "1", "3", "8", "3", "7", "7", "2", "2", "8",
      "2", "6", "1", "4", "5", "4", "3", "7", "6", "9", "3", "4", "1", "2",
      "5", "3", "2", "0", "9", "8", "5", "9", "1", "3", "2", "7", "6", "6",
      "7", "2", "3", "6", "3", "2", "8", "1", "2", "5">>

\* floor(log2(n)) for n >= 1.
RECURSIVE Log2(_)
Log2(n) == IF n < 2 THEN 0 ELSE 1 + Log2(n \div 2)

RECURSIVE TwoTo(_)
TwoTo(k) == IF k = 0 THEN 1 ELSE 2 * TwoTo(k - 1)

\* 0.f is at most half the distance from the integer n >= 1 to the next
\* double above it, 2^(Log2(n) - 53).
WithinHalfStepAbove(f, n) ==
    DigitsLE(HalvedTimes(f, Log2(n)), TwoToMinus53)

\* 0.f is at most half the distance from the integer n >= 1 to the next
\* double below it: 2^(Log2(n) - 53), and 2^(Log2(n) - 54) below a power of
\* two.
WithinHalfStepBelow(f, n) ==
    DigitsLE(HalvedTimes(f, Log2(n)),
             IF n = TwoTo(Log2(n)) THEN Halved(TwoToMinus53) ELSE TwoToMinus53)

\* 1 - 0.f for a digit sequence f that ends in a digit other than 0.
OneMinus(f) ==
    [k \in 1..Len(f) |->
        DigitOf((IF k = Len(f) THEN 10 ELSE 9) - DigitValue(f[k]))]

\* 0.f rounds to 0: 0.f <= 2^(-1075), half the smallest double.  A fraction
\* with fewer than 323 zeros after the point is above 2^(-1075) < 10^(-323).
RoundsToZero(f) ==
    /\ Len(f) > 323
    /\ \A k \in 1..323 : f[k] = "0"
    /\ DigitsLE(f, Zeros(323) \o FiveTo1075)

\* A number: nan for NaN, inf for an infinity, neg for the sign, int for the
\* magnitude of the integer part and frac for a fractional part other than 0.
NaN == [nan |-> TRUE, inf |-> FALSE, neg |-> FALSE, int |-> 0, frac |-> FALSE]

Infinite(neg) ==
    [nan |-> FALSE, inf |-> TRUE, neg |-> neg, int |-> 0, frac |-> FALSE]

Finite(neg, int, frac) ==
    [nan |-> FALSE, inf |-> FALSE, neg |-> neg, int |-> int, frac |-> frac]

\* The double nearest to the integer n >= 0 (ties to even), below the
\* magnitude that rounds to Infinity; `more` tells that a fraction other than
\* 0 follows n.  Integers below 2^53 are doubles; from 2^k >= 2^53 on the
\* doubles are 2^(k - 52) apart.
RoundedInteger(n, more) ==
    LET k == Log2(n)
    IN  IF k < 53 THEN n
        ELSE LET step == TwoTo(k - 52)
                 half == TwoTo(k - 53)
                 q    == n \div step
                 r    == n % step
             IN  IF r < half \/ (r = half /\ ~more /\ q % 2 = 0)
                 THEN q * step
                 ELSE (q + 1) * step

\* The double nearest to the integer n >= 0.
DoubleOf(n) ==
    IF Log2(n) >= 1023 /\ n >= DecimalValue(InfinityFrom)
    THEN Infinite(FALSE)
    ELSE Finite(FALSE, RoundedInteger(n, FALSE), FALSE)

\* The double nearest to ip.fp (ties to even), ip and fp digit sequences.
Rounded(neg, ip, fp) ==
    LET i == LeadStripped(ip)
        f == TrailStripped(fp)
    IN  IF Len(i) > Len(InfinityFrom)
           \/ (Len(i) = Len(InfinityFrom) /\ DigitsLE(InfinityFrom, i))
        THEN Infinite(neg)
        ELSE LET n == DecimalValue(i)
             IN  IF f = <<>> THEN Finite(neg, RoundedInteger(n, FALSE), FALSE)
                 ELSE IF Log2(n) >= 53
                 THEN Finite(neg, RoundedInteger(n, TRUE), FALSE)
                 ELSE IF Log2(n) = 52
                 THEN IF DigitValue(f[1]) < 5 THEN Finite(neg, n, FALSE)
                      ELSE IF f = <<"5">> /\ n % 2 = 0
                      THEN Finite(neg, n, FALSE)
                      ELSE Finite(neg, n + 1, FALSE)
                 ELSE IF n = 0 /\ RoundsToZero(f) THEN Finite(neg, 0, FALSE)
                 ELSE IF n > 0 /\ WithinHalfStepAbove(f, n)
                 THEN Finite(neg, n, FALSE)
                 ELSE IF WithinHalfStepBelow(OneMinus(f), n + 1)
                 THEN Finite(neg, n + 1, FALSE)
                 ELSE Finite(neg, n, TRUE)

\* The value of the exponent part e (after the letter), cut at a magnitude
\* `most` beyond which the result is 0 or Infinity whatever the digits.
ExponentValue(e, most) ==
    LET neg == e[1] = "-"
        d   == LeadStripped(IF e[1] \in {"+", "-"} THEN Tail(e) ELSE e)
        n   == IF Len(d) > 6 THEN most
               ELSE IF DecimalValue(d) > most THEN most
               ELSE DecimalValue(d)
    IN  IF neg THEN 0 - n ELSE n

\* StrDecimalLiteral without its sign: digits, an optional point and
\* digits, an optional exponent; at least one digit next to the point.
DecimalLiteral(neg, u) ==
    LET marks == {k \in 1..Len(u) : u[k] \in {"e", "E"}}
        mark  == IF marks = {} THEN Len(u) + 1
                 ELSE CHOOSE k \in marks : \A j \in marks : k <= j
        m     == SubSeq(u, 1, mark - 1)
        e     == SubSeq(u, mark + 1, Len(u))
        ed    == IF Len(e) > 0 /\ e[1] \in {"+", "-"} THEN Tail(e) ELSE e
        dots  == {k \in 1..Len(m) : m[k] = "."}
        dot   == IF dots = {} THEN Len(m) + 1
                 ELSE CHOOSE k \in dots : \A j \in dots : k <= j
        ip    == SubSeq(m, 1, dot - 1)
        fp    == SubSeq(m, dot + 1, Len(m))
        x     == IF marks = {} THEN 0 ELSE ExponentValue(e, Len(u) + 400)
    IN  IF \/ ~AllDigits(ip) \/ ~AllDigits(fp) \/ Len(ip) + Len(fp) = 0
           \/ (marks # {} /\ (Len(ed) = 0 \/ ~AllDigits(ed)))
        THEN NaN
        ELSE IF x >= 0
        THEN Rounded(neg,
                     ip \o SubSeq(fp, 1, IF x < Len(fp) THEN x ELSE Len(fp))
                        \o Zeros(x - Len(fp)),
                     SubSeq(fp, x + 1, Len(fp)))
        ELSE Rounded(neg,
                     SubSeq(ip, 1, Len(ip) + x),
                     Zeros(0 - x - Len(ip))
                        \o SubSeq(ip, IF Len(ip) + x < 0 THEN 1
                                      ELSE Len(ip) + x + 1, Len(ip))
                        \o fp)

\* Number(v) for undefined and for strings (StringToNumber): undefined is
\* NaN; a text is stripped of white space at both ends; the empty text is 0;
\* 0x, 0o and 0b prefix an unsigned integer of that radix; otherwise an
\* optional sign precedes Infinity or a decimal literal; any other text is
\* NaN.  The value is rounded to a double.
Number(v) ==
    IF v = Undefined THEN NaN
    ELSE LET t    == Trimmed(v)
             base == RadixOf(t)
             neg  == t[1] = "-"
             u    == IF t[1] \in {"+", "-"} THEN Tail(t) ELSE t
         IN  IF t = <<>> THEN Finite(FALSE, 0, FALSE)
             ELSE IF base # 0
             THEN IF Len(t) > 2 /\ \A k \in 3..Len(t) : t[k] \in RadixDigits(base)
                  THEN DoubleOf(RadixValue(SubSeq(t, 3, Len(t)), base))
                  ELSE NaN
             ELSE IF u = <<"I", "n", "f", "i", "n", "i", "t", "y">>
             THEN Infinite(neg)
             ELSE DecimalLiteral(neg, u)

\* Number.isInteger(n)
IsInteger(n) == ~n.nan /\ ~n.inf /\ ~n.frac

\* n < 1 (false for NaN)
LessThanOne(n) == ~n.nan /\ (n.neg \/ (~n.inf /\ n.int < 1))

\* n || d for a number n: NaN and 0 are falsy.
OrDefault(n, d) ==
    IF n.nan \/ (~n.inf /\ n.int = 0 /\ ~n.frac) THEN d
    ELSE IF n.neg THEN 0 - n.int ELSE n.int

(* ------------------------- regular expressions ------------------------- *)

AllNonSpace(s, a, b) == \A k \in a..b : IsNonSpace(s[k])

AllSpace(s, a, b) == \A k \in a..b : IsSpace(s[k])

\* (?=(?:\S+\s+){1,}) at the start of s: a first repetition of \S+\s+
\* matches there (further repetitions are optional).
nameLookahead(s) ==
    \E i \in 1..Len(s) : \E j \in 1..Len(s) :
        /\ i + j <= Len(s)
        /\ AllNonSpace(s, 1, i)
        /\ AllSpace(s, i + 1, i + j)

\* (\S{3,}\s+\S{3,}) at the start of s; the pattern has no end anchor.
nameGroup(s) ==
    \E i \in 3..Len(s) : \E j \in 1..Len(s) : \E k \in 3..Len(s) :
        /\ i + j + k <= Len(s)
        /\ AllNonSpace(s, 1, i)
        /\ AllSpace(s, i + 1, i + j)
        /\ AllNonSpace(s, i + j + 1, i + j + k)

\* /^(?=(?:\S+\s+){1,})(\S{3,}\s+\S{3,})/.test(v)
nameRegex(v) == LET s == StringOf(v) IN nameLookahead(s) /\ nameGroup(s)

\* /^\d{2}9\d{8}$/.test(v)
phoneRegex(v) ==
    LET s == StringOf(v)
    IN  /\ Len(s) = 11
        /\ IsDigit(s[1]) /\ IsDigit(s[2])
        /\ s[3] = "9"
        /\ \A k \in 4..11 : IsDigit(s[k])

(* ------------------------------ requests ------------------------------- *)

\* Object.keys(req.params): "id" when the path carries it, then any other
\* path parameter.
ParamKeys(params) ==
    (IF params.id # Undefined THEN <<"id">> ELSE <<>>) \o params.extra

\* Object.keys(req.query)
QueryKeys(query) ==
    (IF query.page # Undefined THEN <<"page">> ELSE <<>>)
        \o (IF query.limit # Undefined THEN <<"limit">> ELSE <<>>)
        \o query.extra

\* Object.keys(req.body)
BodyKeys(body) ==
    (IF body.name # Undefined THEN <<"name">> ELSE <<>>)
        \o (IF body.phone # Undefined THEN <<"phone">> ELSE <<>>)
        \o body.extra

\* keys.filter((k) => !valid.includes(k))
NotIncluded(keys, valid) ==
    LET Other(k) == \A i \in 1..Len(valid) : valid[i] # k
    IN  SelectSeq(keys, Other)

\* keys.join(", ")
RECURSIVE Join(_)
Join(keys) ==
    IF Len(keys) = 0 THEN ""
    ELSE IF Len(keys) = 1 THEN keys[1]
    ELSE keys[1] \o ", " \o Join(Tail(keys))

(* ------------------------------- errors -------------------------------- *)

BadRequestError(message) == [statusCode |-> 400, message |-> message]

NotFoundError(message) == [statusCode |-> 404, message |-> message]

\* What a validation yields when no check fails.
Passed == [statusCode |-> 0, message |-> ""]

(* ----------------------------- repository ------------------------------ *)

\* What findOneBy resolves to when no row matches.
Null == [null |-> TRUE]

\* contactRepository.findOneBy({ id: n }): the row whose id is the number
\* n; NaN and fractions equal no id.
findOneBy(rows, n) ==
    IF IsInteger(n) /\ ~n.neg /\ \E c \in rows : c.id = n.int
    THEN CHOOSE c \in rows : c.id = n.int
    ELSE Null

\* The rows in the order of their ids.
RECURSIVE InIdOrder(_)
InIdOrder(rows) ==
    IF rows = {} THEN <<>>
    ELSE LET first == CHOOSE c \in rows : \A d \in rows : c.id <= d.id
         IN  <<first>> \o InIdOrder(rows \ {first})

\* contactRepository.findAndCount({ skip, take })
findAndCount(rows, skip, take) ==
    LET all  == InIdOrder(rows)
        from == IF skip.inf \/ skip.int > Len(all) THEN Len(all) ELSE skip.int
        last == IF from + take < Len(all) THEN from + take ELSE Len(all)
    IN  [contacts |-> SubSeq(all, from + 1, last), total |-> Len(all)]

\* contactRepository.save(entity) of an entity that has no id yet: the
\* table assigns the id and sets both timestamps to the current time.
inserted(fields, id, now) ==
    [id        |-> id,
     name      |-> fields.name,
     phone     |-> fields.phone,
     createdAt |-> now,
     updatedAt |-> now]

\* contactRepository.save(entity) of an entity that has an id: the row of
\* that id becomes the entity (it is inserted when no such row exists).
save(rows, entity) == {c \in rows : c.id # entity.id} \cup {entity}

\* contactRepository.remove(entity)
remove(rows, entity) == {c \in rows : c.id # entity.id}

(* ------------------------------ responses ------------------------------ *)

\* The state before any request.
NoResponse == [op |-> "none", status |-> 0]

\* next(err): the error handler answers err.statusCode with {message}.
nextError(op, req, err) ==
    [op     |-> op,
     req    |-> req,
     status |-> err.statusCode,
     body   |-> [message |-> err.message]]

\* res.status(status).json(body)
json(op, req, status, body) ==
    [op |-> op, req |-> req, status |-> status, body |-> body]

\* The response as the history keeps it: with whether the request it answers
\* was handled alone, no other request being handled between its arrival and
\* its answer.
Answer(response, alone) ==
    [op     |-> response.op,
     req    |-> response.req,
     status |-> response.status,
     body   |-> response.body,
     alone  |-> alone]

\* What a request is preceded by: the response r when r is the 201 of a
\* create request.
Recent(r) == IF r.op = "create" /\ r.status = 201 THEN r ELSE NoResponse

(* ------------------------------- awaits -------------------------------- *)

\* The requests whose handler is suspended at an await.
Suspended == BagToSet(inflight)

\* No handler is suspended.
NoneSuspended == inflight = EmptyBag

\* One more handler can be suspended.
Room == BagCardinality(inflight) < MaxTasks

\* The suspended requests once another request is handled: none of them is
\* handled alone any more.  (A request that is alone is the only one.)
Overlapped ==
    IF \E r \in Suspended : r.alone
    THEN SetToBag({[r EXCEPT !.alone = FALSE] : r \in Suspended})
    ELSE inflight

\* The suspended requests with request r suspended among them.
Suspend(r) == Overlapped (+) SetToBag({r})

\* The suspended requests when the handler of r goes on to the await q.
Proceed(r, q) == (inflight (-) SetToBag({r})) (+) SetToBag({q})

\* The suspended requests when the handler of r has answered.
Finish(r) == inflight (-) SetToBag({r})

(* -------------------------- getOneContactById -------------------------- *)

getParamsCheck(params) ==
    IF ~Truthy(params.id)
    THEN BadRequestError("Contact ID is required")
    ELSE IF Len(ParamKeys(params)) > 1 \/ ~Truthy(params.id)
    THEN BadRequestError("Invalid parameter. Only \"id\" is allowed.")
    ELSE Passed

\* The criterion of the lookup: { id: Number(id) }.
getCriterion(id) == Number(id)

\* The handler up to its await of findOneBy: the checks of the parameters, and
\* the call of the lookup.
getFind(params) ==
    LET req    == [params |-> params]
        failed == getParamsCheck(params)
    IN  /\ IF failed # Passed
           THEN /\ resp' = Answer(nextError("get", req, failed), NoneSuspended)
                /\ prior' = Recent(resp)
                /\ inflight' = Overlapped
           ELSE /\ Room
                /\ inflight' =
                      Suspend([op    |-> "get",
                               at    |-> "findOneBy",
                               req   |-> req,
                               alone |-> NoneSuspended])
                /\ UNCHANGED <<resp, prior>>
        /\ UNCHANGED <<store, nextId, clock, removed, subject>>

\* The table executes the lookup: the row it answers with.
getFound(r) ==
    /\ r.op = "get"
    /\ r.at = "findOneBy"
    /\ inflight' =
          Proceed(r, [op      |-> "get",
                      at      |-> "found",
                      req     |-> r.req,
                      alone   |-> r.alone,
                      contact |-> findOneBy(store,
                                            getCriterion(r.req.params.id))])
    /\ UNCHANGED <<store, nextId, clock, resp, prior, removed, subject>>

\* The handler from the completion of findOneBy.
getAnswer(r) ==
    /\ r.op = "get"
    /\ r.at = "found"
    /\ resp' = Answer(IF r.contact = Null
                      THEN nextError("get", r.req,
                                     NotFoundError("Contact not found"))
                      ELSE json("get", r.req, 200, r.contact),
                      r.alone)
    /\ prior' = Recent(resp)
    /\ inflight' = Finish(r)
    /\ UNCHANGED <<store, nextId, clock, removed, subject>>

\* A step of the handler: a request of `requests` arrives, or a suspended
\* request goes on.
getOneContactById(requests) ==
    \/ \E params \in requests : getFind(params)
    \/ \E r \in Suspended : getFound(r)
    \/ \E r \in Suspended : getAnswer(r)

(* ---------------------------- getAllContacts --------------------------- *)

validParams == <<"page", "limit">>

DefaultPage == 1

DefaultLimit == 10

queryCheck(query) ==
    LET invalidParams == NotIncluded(QueryKeys(query), validParams)
        pageNumber    == Number(query.page)
        limitNumber   == Number(query.limit)
    IN  IF Len(invalidParams) > 0
        THEN BadRequestError("Invalid parameters: " \o Join(invalidParams))
        ELSE IF /\ Truthy(query.page)
                /\ (~IsInteger(pageNumber) \/ LessThanOne(pageNumber))
        THEN BadRequestError("Page must be a positive integer.")
        ELSE IF /\ Truthy(query.limit)
                /\ (~IsInteger(limitNumber) \/ LessThanOne(limitNumber))
        THEN BadRequestError("Limit must be a positive integer.")
        ELSE Passed

\* pageNumber || 1
currentPage(query) == OrDefault(Number(query.page), DefaultPage)

\* limitNumber || 10
currentLimit(query) == OrDefault(Number(query.limit), DefaultLimit)

\* Mutant of skipOf: the pages are counted from 0.
skipOfPage(page, limit) == DoubleOf(page * limit)

\* skip: (currentPage - 1) * currentLimit
skipOf(page, limit) == DoubleOf(RoundedInteger(page - 1, FALSE) * limit)

\* take: currentLimit
takeOf(page, limit) == limit

\* Mutant of pageResponse: an empty page is answered like any other.
pageResponseAlways(req, page, limit, found) ==
    json("list", req, 200,
         [page     |-> page,
          limit    |-> limit,
          total    |-> found.total,
          contacts |-> found.contacts])

\* The response to a page: 404 when it holds no contact, else 200.
pageResponse(req, page, limit, found) ==
    IF Len(found.contacts) = 0
    THEN json("list", req, 404,
              [message |-> "No contacts found.", page |-> page, limit |-> limit])
    ELSE json("list", req, 200,
              [page     |-> page,
               limit    |-> limit,
               total    |-> found.total,
               contacts |-> found.contacts])

\* The handler up to its await of findAndCount: the checks of the query, and
\* the call of findAndCount with skip and take.
listFind(query) ==
    LET failed == queryCheck(query)
        page   == currentPage(query)
        limit  == currentLimit(query)
        skip   == skipOf(page, limit)
        take   == takeOf(page, limit)
    IN  /\ IF failed # Passed
           THEN /\ resp' = Answer(nextError("list",
                                            [query |-> query, asked |-> <<>>],
                                            failed),
                                  NoneSuspended)
                /\ prior' = Recent(resp)
                /\ inflight' = Overlapped
           ELSE /\ Room
                /\ inflight' =
                      Suspend([op    |-> "list",
                               at    |-> "findAndCount",
                               req   |-> [query |-> query,
                                          asked |-> <<skip, take>>],
                               alone |-> NoneSuspended,
                               page  |-> page,
                               limit |-> limit])
                /\ UNCHANGED <<resp, prior>>
        /\ UNCHANGED <<store, nextId, clock, removed, subject>>

\* The table executes findAndCount: the rows and the count it answers with.
listFound(r) ==
    /\ r.op = "list"
    /\ r.at = "findAndCount"
    /\ inflight' =
          Proceed(r, [op    |-> "list",
                      at    |-> "found",
                      req   |-> r.req,
                      alone |-> r.alone,
                      page  |-> r.page,
                      limit |-> r.limit,
                      found |-> findAndCount(store, r.req.asked[1],
                                             r.req.asked[2])])
    /\ UNCHANGED <<store, nextId, clock, resp, prior, removed, subject>>

\* The handler from the completion of findAndCount.
listAnswer(r) ==
    /\ r.op = "list"
    /\ r.at = "found"
    /\ resp' = Answer(pageResponse(r.req, r.page, r.limit, r.found), r.alone)
    /\ prior' = Recent(resp)
    /\ inflight' = Finish(r)
    /\ UNCHANGED <<store, nextId, clock, removed, subject>>

\* A step of the handler: a request of `requests` arrives, or a suspended
\* request goes on.
getAllContacts(requests) ==
    \/ \E query \in requests : listFind(query)
    \/ \E r \in Suspended : listFound(r)
    \/ \E r \in Suspended : listAnswer(r)

(* ----------------------------- createContact --------------------------- *)

validFields == <<"name", "phone">>

\* Mutant of createCheck: the extraneous keys are looked for first.
createCheckExtraFirst(body) ==
    LET extraFields == NotIncluded(BodyKeys(body), validFields)
    IN  IF Len(extraFields) > 0
        THEN BadRequestError("Invalid parameters: " \o Join(extraFields))
        ELSE IF ~Truthy(body.name) \/ ~Truthy(body.phone)
        THEN BadRequestError("Name and phone are required.")
        ELSE IF ~nameRegex(body.name)
        THEN BadRequestError("Name must contain at least two words, each with a minimum of three letters.")
        ELSE IF ~phoneRegex(body.phone)
        THEN BadRequestError("Phone must be in the format XX9XXXXXXXX.")
        ELSE Passed

createCheck(body) ==
    LET extraFields == NotIncluded(BodyKeys(body), validFields)
    IN  IF ~Truthy(body.name) \/ ~Truthy(body.phone)
        THEN BadRequestError("Name and phone are required.")
        ELSE IF Len(extraFields) > 0
        THEN BadRequestError("Invalid parameters: " \o Join(extraFields))
        ELSE IF ~nameRegex(body.name)
        THEN BadRequestError("Name must contain at least two words, each with a minimum of three letters.")
        ELSE IF ~phoneRegex(body.phone)
        THEN BadRequestError("Phone must be in the format XX9XXXXXXXX.")
        ELSE Passed

\* Mutant of createFields: the phone is stored as the name too.
createFieldsPhoneTwice(name, phone) == [name |-> phone, phone |-> phone]

\* contactRepository.create({ name, phone })
createFields(name, phone) == [name |-> name, phone |-> phone]

\* The handler up to its await of save: the checks of the body, and the
\* entity that contactRepository.create builds and save is called with.
createSave(body) ==
    LET req    == [body |-> body]
        failed == createCheck(body)
    IN  /\ IF failed # Passed
           THEN /\ resp' = Answer(nextError("create", req, failed),
                                  NoneSuspended)
                /\ prior' = Recent(resp)
                /\ inflight' = Overlapped
           ELSE /\ Room
                /\ inflight' =
                      Suspend([op     |-> "create",
                               at     |-> "save",
                               req    |-> req,
                               alone  |-> NoneSuspended,
                               fields |-> createFields(body.name, body.phone)])
                /\ UNCHANGED <<resp, prior>>
        /\ UNCHANGED <<store, nextId, clock, removed, subject>>

\* The save of the new entity reaches the table, which inserts the row.
createInsert(r) ==
    LET contact == inserted(r.fields, nextId, clock)
    IN  /\ r.op = "create"
        /\ r.at = "save"
        /\ store' = save(store, contact)
        /\ nextId' = nextId + 1
        /\ inflight' = Proceed(r, [op      |-> "create",
                                   at      |-> "saved",
                                   req     |-> r.req,
                                   alone   |-> r.alone,
                                   contact |-> contact])
        /\ UNCHANGED <<clock, resp, prior, removed, subject>>

\* The handler from the completion of save.
createAnswer(r) ==
    /\ r.op = "create"
    /\ r.at = "saved"
    /\ resp' = Answer(json("create", r.req, 201, r.contact), r.alone)
    /\ prior' = Recent(resp)
    /\ inflight' = Finish(r)
    /\ UNCHANGED <<store, nextId, clock, removed, subject>>

\* A step of the handler: a request of `requests` arrives, or a suspended
\* request goes on.
createContact(requests) ==
    \/ \E body \in requests : createSave(body)
    \/ \E r \in Suspended : createInsert(r)
    \/ \E r \in Suspended : createAnswer(r)

(* ----------------------------- updateContact --------------------------- *)

\* Mutant of updateCheck: the body is checked before the lookup's result.
updateCheckBodyFirst(contact, body) ==
    LET extraFields == NotIncluded(BodyKeys(body), validFields)
    IN  IF Len(extraFields) > 0
        THEN BadRequestError("Invalid parameters: " \o Join(extraFields))
        ELSE IF ~nameRegex(body.name)
        THEN BadRequestError("Name must contain at least two words, each with a minimum of three letters.")
        ELSE IF Truthy(body.phone) /\ ~phoneRegex(body.phone)
        THEN BadRequestError("Phone must be in the format XX9XXXXXXXX.")
        ELSE IF contact = Null
        THEN NotFoundError("Contact not found.")
        ELSE Passed

\* Mutant of updateCheck: the name pattern is tested only when a name is
\* supplied.
updateCheckNameIfSupplied(contact, body) ==
    LET extraFields == NotIncluded(BodyKeys(body), validFields)
    IN  IF contact = Null
        THEN NotFoundError("Contact not found.")
        ELSE IF Len(extraFields) > 0
        THEN BadRequestError("Invalid parameters: " \o Join(extraFields))
        ELSE IF Truthy(body.name) /\ ~nameRegex(body.name)
        THEN BadRequestError("Name must contain at least two words, each with a minimum of three letters.")
        ELSE IF Truthy(body.phone) /\ ~phoneRegex(body.phone)
        THEN BadRequestError("Phone must be in the format XX9XXXXXXXX.")
        ELSE Passed

updateCheck(contact, body) ==
    LET extraFields == NotIncluded(BodyKeys(body), validFields)
    IN  IF contact = Null
        THEN NotFoundError("Contact not found.")
        ELSE IF Len(extraFields) > 0
        THEN BadRequestError("Invalid parameters: " \o Join(extraFields))
        ELSE IF ~nameRegex(body.name)
        THEN BadRequestError("Name must contain at least two words, each with a minimum of three letters.")
        ELSE IF Truthy(body.phone) /\ ~phoneRegex(body.phone)
        THEN BadRequestError("Phone must be in the format XX9XXXXXXXX.")
        ELSE Passed

\* Mutant of applied: the time of the update is assigned to createdAt.
appliedCreatedAt(contact, name, phone, now) ==
    [id        |-> contact.id,
     name      |-> IF Truthy(name) THEN name ELSE contact.name,
     phone     |-> IF Truthy(phone) THEN phone ELSE contact.phone,
     createdAt |-> now,
     updatedAt |-> contact.updatedAt]

\* Mutant of applied: both fields are assigned whether supplied or not.
appliedAll(contact, name, phone, now) ==
    [id        |-> contact.id,
     name      |-> name,
     phone     |-> phone,
     createdAt |-> contact.createdAt,
     updatedAt |-> now]

\* if (name) contact.name = name; if (phone) contact.phone = phone;
\* contact.updatedAt = new Date();
applied(contact, name, phone, now) ==
    [id        |-> contact.id,
     name      |-> IF Truthy(name) THEN name ELSE contact.name,
     phone     |-> IF Truthy(phone) THEN phone ELSE contact.phone,
     createdAt |-> contact.createdAt,
     updatedAt |-> now]

\* The handler up to its await of findOneBy: the call of the lookup.
updateFind(params, body) ==
    /\ Room
    /\ inflight' =
          Suspend([op    |-> "update",
                   at    |-> "findOneBy",
                   req   |-> [params |-> params, body |-> body],
                   alone |-> NoneSuspended])
    /\ UNCHANGED <<store, nextId, clock, resp, prior, removed, subject>>

\* The table executes the lookup: the row it answers with.
updateFound(r) ==
    /\ r.op = "update"
    /\ r.at = "findOneBy"
    /\ inflight' =
          Proceed(r, [op      |-> "update",
                      at      |-> "found",
                      req     |-> r.req,
                      alone   |-> r.alone,
                      contact |-> findOneBy(store, Number(r.req.params.id))])
    /\ UNCHANGED <<store, nextId, clock, resp, prior, removed, subject>>

\* Mutant of updateResume: the name is assigned and saved as soon as it has
\* passed its pattern, before the phone is tested.
updateResumeEager(r) ==
    LET failed == updateCheck(r.contact, r.req.body)
    IN  /\ r.op = "update"
        /\ r.at = "found"
        /\ IF failed # Passed
           THEN /\ resp' = Answer(nextError("update", r.req, failed), r.alone)
                /\ prior' = Recent(resp)
                /\ inflight' = Finish(r)
                /\ store' =
                      IF failed = BadRequestError("Phone must be in the format XX9XXXXXXXX.")
                      THEN save(store, applied(r.contact, r.req.body.name,
                                               Undefined, clock))
                      ELSE store
           ELSE /\ inflight' =
                      Proceed(r, [op     |-> "update",
                                  at     |-> "save",
                                  req    |-> r.req,
                                  alone  |-> r.alone,
                                  entity |-> applied(r.contact, r.req.body.name,
                                                     r.req.body.phone, clock)])
                /\ UNCHANGED <<store, resp, prior>>
        /\ UNCHANGED <<nextId, clock, removed, subject>>

\* The handler from the completion of findOneBy up to its await of save: the
\* checks, and the assignments to the loaded entity.
updateResume(r) ==
    LET failed == updateCheck(r.contact, r.req.body)
    IN  /\ r.op = "update"
        /\ r.at = "found"
        /\ IF failed # Passed
           THEN /\ resp' = Answer(nextError("update", r.req, failed), r.alone)
                /\ prior' = Recent(resp)
                /\ inflight' = Finish(r)
           ELSE /\ inflight' =
                      Proceed(r, [op     |-> "update",
                                  at     |-> "save",
                                  req    |-> r.req,
                                  alone  |-> r.alone,
                                  entity |-> applied(r.contact, r.req.body.name,
                                                     r.req.body.phone, clock)])
                /\ UNCHANGED <<resp, prior>>
        /\ UNCHANGED <<store, nextId, clock, removed, subject>>

\* Mutant of updateSave: the supplied fields are written onto the row as it is
\* in the table when the save runs, not onto the row that was loaded.
updateSaveMerge(r) ==
    LET current == findOneBy(store, Number(r.req.params.id))
        entity  == IF current = Null
                   THEN r.entity
                   ELSE applied(current, r.req.body.name, r.req.body.phone,
                                r.entity.updatedAt)
    IN  /\ r.op = "update"
        /\ r.at = "save"
        /\ store' = save(store, entity)
        /\ inflight' = Proceed(r, [op     |-> "update",
                                   at     |-> "saved",
                                   req    |-> r.req,
                                   alone  |-> r.alone,
                                   entity |-> entity])
        /\ UNCHANGED <<nextId, clock, resp, prior, removed, subject>>

\* The save of the entity reaches the table.
updateSave(r) ==
    /\ r.op = "update"
    /\ r.at = "save"
    /\ store' = save(store, r.entity)
    /\ inflight' = Proceed(r, [r EXCEPT !.at = "saved"])
    /\ UNCHANGED <<nextId, clock, resp, prior, removed, subject>>

\* The handler from the completion of save.
updateAnswer(r) ==
    /\ r.op = "update"
    /\ r.at = "saved"
    /\ resp' = Answer(json("update", r.req, 200, r.entity), r.alone)
    /\ prior' = Recent(resp)
    /\ inflight' = Finish(r)
    /\ UNCHANGED <<store, nextId, clock, removed, subject>>

\* A step of the handler: a request of `requests` arrives, or a suspended
\* request goes on.
updateContact(requests) ==
    \/ \E req \in requests : updateFind(req.params, req.body)
    \/ \E r \in Suspended : updateFound(r)
    \/ \E r \in Suspended : updateResume(r)
    \/ \E r \in Suspended : updateSave(r)
    \/ \E r \in Suspended : updateAnswer(r)

(* ----------------------------- deleteContact --------------------------- *)

deleteParamsCheck(params) ==
    IF ~Truthy(params.id)
    THEN BadRequestError("Contact ID is required")
    ELSE IF Len(ParamKeys(params)) > 1 \/ ~Truthy(params.id)
    THEN BadRequestError("Invalid parameter. Only \"id\" is allowed.")
    ELSE Passed

\* Mutant of deleted: the handler answers without removing the row.
deletedNothing(rows, contact) == rows

\* What the handler removes once the lookup found the contact.
deleted(rows, contact) == remove(rows, contact)

\* The handler up to its await of findOneBy: the checks of the parameters,
\* and the call of the lookup.
deleteFind(params) ==
    LET req    == [params |-> params]
        failed == deleteParamsCheck(params)
    IN  /\ IF failed # Passed
           THEN /\ resp' = Answer(nextError("delete", req, failed),
                                  NoneSuspended)
                /\ prior' = Recent(resp)
                /\ inflight' = Overlapped
           ELSE /\ Room
                /\ inflight' =
                      Suspend([op    |-> "delete",
                               at    |-> "findOneBy",
                               req   |-> req,
                               alone |-> NoneSuspended])
                /\ UNCHANGED <<resp, prior>>
        /\ UNCHANGED <<store, nextId, clock, removed, subject>>

\* The table executes the lookup: the row it answers with.
deleteFound(r) ==
    /\ r.op = "delete"
    /\ r.at = "findOneBy"
    /\ inflight' =
          Proceed(r, [op      |-> "delete",
                      at      |-> "found",
                      req     |-> r.req,
                      alone   |-> r.alone,
                      contact |-> findOneBy(store, Number(r.req.params.id))])
    /\ UNCHANGED <<store, nextId, clock, resp, prior, removed, subject>>

\* The handler from the completion of findOneBy up to its await of remove:
\* the answer 404, or the call of remove with the loaded entity.
deleteResume(r) ==
    /\ r.op = "delete"
    /\ r.at = "found"
    /\ IF r.contact = Null
       THEN /\ resp' = Answer(nextError("delete", r.req,
                                        NotFoundError("Contact not found.")),
                              r.alone)
            /\ prior' = Recent(resp)
            /\ inflight' = Finish(r)
       ELSE /\ inflight' = Proceed(r, [r EXCEPT !.at = "remove"])
            /\ UNCHANGED <<resp, prior>>
    /\ UNCHANGED <<store, nextId, clock, removed, subject>>

\* The table executes the removal of the loaded entity.
deleteRemove(r) ==
    /\ r.op = "delete"
    /\ r.at = "remove"
    /\ store' = deleted(store, r.contact)
    /\ inflight' = Proceed(r, [r EXCEPT !.at = "removed"])
    /\ UNCHANGED <<nextId, clock, resp, prior, removed, subject>>

\* The handler from the completion of remove.
deleteAnswer(r) ==
    /\ r.op = "delete"
    /\ r.at = "removed"
    /\ removed' = removed \cup {[id |-> r.contact.id, alone |-> r.alone]}
    /\ resp' = Answer(json("delete", r.req, 204, <<>>), r.alone)
    /\ prior' = Recent(resp)
    /\ inflight' = Finish(r)
    /\ UNCHANGED <<store, nextId, clock, subject>>

\* A step of the handler: a request of `requests` arrives, or a suspended
\* request goes on.
deleteContact(requests) ==
    \/ \E params \in requests : deleteFind(params)
    \/ \E r \in Suspended : deleteFound(r)
    \/ \E r \in Suspended : deleteResume(r)
    \/ \E r \in Suspended : deleteRemove(r)
    \/ \E r \in Suspended : deleteAnswer(r)

(* -------------------------------- clock -------------------------------- *)

\* Time passes between two steps.
Tick ==
    /\ clock < MaxClock
    /\ clock' = clock + 1
    /\ UNCHANGED <<store, nextId, resp, prior, removed, inflight, subject>>

(* ------------------------------- inputs -------------------------------- *)

\* A text as the sequence of its characters.
Empty == <<>>

\* "Artur Daniel": two words of 5 and 6
ArturDaniel == <<"A", "r", "t", "u", "r", " ", "D", "a", "n", "i", "e", "l">>

\* "Ana Bia": two words of 3
AnaBia == <<"A", "n", "a", " ", "B", "i", "a">>

\* "Ana Bia X": a third word of 1
AnaBiaX == <<"A", "n", "a", " ", "B", "i", "a", " ", "X">>

\* "Jo Al": two words of 2
JoAl == <<"J", "o", " ", "A", "l">>

\* "Ana Bi": a second word of 2
AnaBi == <<"A", "n", "a", " ", "B", "i">>

\* " Ana Bia": leading whitespace
LedAnaBia == <<" ", "A", "n", "a", " ", "B", "i", "a">>

\* "Ana\tBia": a tab between the words
AnaTabBia == <<"A", "n", "a", "\t", "B", "i", "a">>

\* "Ana\rBia": a carriage return between the words
AnaReturnBia == <<"A", "n", "a", "\r", "B", "i", "a">>

\* "Anabia": one word
Anabia == <<"A", "n", "a", "b", "i", "a">>

\* "79900000000": valid
Phone1 == <<"7", "9", "9", "0", "0", "0", "0", "0", "0", "0", "0">>

\* "79911111111": valid
Phone2 == <<"7", "9", "9", "1", "1", "1", "1", "1", "1", "1", "1">>

\* "1234567890": 10 digits
TenDigits == <<"1", "2", "3", "4", "5", "6", "7", "8", "9", "0">>

\* "79800000000": 11 digits, the third not 9
NoNine == <<"7", "9", "8", "0", "0", "0", "0", "0", "0", "0", "0">>

\* "799000000000": 12 digits
TwelveDigits == <<"7", "9", "9", "0", "0", "0", "0", "0", "0", "0", "0", "0">>

\* "7990000000a": a letter at the end
WithLetter == <<"7", "9", "9", "0", "0", "0", "0", "0", "0", "0", "a">>

\* Path parameters: the id of a contact, the same id written with an
\* exponent, a number that is no contact's id, a text that is no number, and
\* no id.
One == <<"1">>

\* "1e0"
OneExponent == <<"1", "e", "0">>

Two == <<"2">>

Seven == <<"7">>

NotANumber == <<"x">>

IdTexts == {One, OneExponent, Two, Seven, NotANumber}

Params(id) == [id |-> id, extra |-> <<>>]

\* The path of each route carries the id alone; a handler called with no id
\* or with a second parameter answers BadRequest.
ParamsInputs ==
    {Params(id) : id \in IdTexts \cup {Undefined}}
        \cup {[id |-> One, extra |-> <<"other">>]}

Body(name, phone) == [name |-> name, phone |-> phone, extra |-> <<>>]

\* Bodies of the create requests of the lifecycle specification.
CreateBodies ==
    {Body(ArturDaniel, Phone1),
     Body(ArturDaniel, Undefined),
     Body(JoAl, Phone1),
     Body(ArturDaniel, TenDigits),
     [name |-> ArturDaniel, phone |-> Phone1, extra |-> <<"email">>]}

\* Bodies of the update requests of the lifecycle specification.
UpdateBodies ==
    {Body(AnaBia, Undefined),
     Body(AnaBia, Phone2),
     Body(Undefined, Phone2),
     Body(Undefined, Undefined),
     Body(JoAl, Phone2),
     Body(AnaBia, NoNine),
     [name |-> AnaBia, phone |-> Phone2, extra |-> <<"email">>]}

\* Ids of the update requests of the lifecycle specification.
UpdateIds == {One, Two, NotANumber}

\* Bodies of the create requests of the validation specification.
NameInputs ==
    {Undefined, Empty, ArturDaniel, AnaBiaX, AnaReturnBia, JoAl, AnaBi,
     LedAnaBia, Anabia}

PhoneInputs ==
    {Undefined, Empty, Phone1, TenDigits, NoNine, TwelveDigits, WithLetter}

ValidationBodies ==
    [name  : NameInputs,
     phone : PhoneInputs,
     extra : {<<>>, <<"email">>, <<"email", "age">>}]

\* Query parameters of the page requests.
QueryTexts ==
    {Undefined, Empty, <<"1">>, <<"2">>, <<"3">>, <<"0">>, <<"-", "1">>,
     <<"1", ".", "5">>, <<"2", ".", "0">>, <<"x">>, <<"0", "2">>,
     <<" ", "2">>}

QueryInputs ==
    [page : QueryTexts, limit : QueryTexts, extra : {<<>>, <<"sort">>}]

\* The body that seeds the table of the pagination specification.
SeedBody == [name |-> ArturDaniel, phone |-> Phone1, extra |-> <<>>]

\* The queries of the list requests of the requests specification: a first
\* page, a later page, a page past the rows, a page that is no positive
\* integer, an unknown key.
ListQueries ==
    {[page |-> Undefined, limit |-> Undefined, extra |-> <<>>],
     [page |-> <<"2">>,   limit |-> <<"1">>,   extra |-> <<>>],
     [page |-> <<"3">>,   limit |-> <<"3">>,   extra |-> <<>>],
     [page |-> <<"0">>,   limit |-> Undefined, extra |-> <<>>],
     [page |-> Undefined, limit |-> Undefined, extra |-> <<"sort">>]}

\* The bodies of the updates that overlap one another.
ConcurrentBodies == {Body(AnaBia, Undefined), Body(AnaTabBia, Phone2)}

(* --------------------------- specifications ---------------------------- *)

\* The process has started: the table is empty and no request has arrived.
Started ==
    /\ store = {}
    /\ nextId = 1
    /\ clock = 0
    /\ resp = NoResponse
    /\ prior = NoResponse
    /\ removed = {}
    /\ inflight = EmptyBag

\* The request under study when it is of kind op.
Asked(op) == IF subject.op = op THEN {subject} ELSE {}

\* The ids that the table has assigned or will assign to the creates that
\* wait for their insert.
Assigned ==
    nextId - 1
        + BagCardinality([r \in {q \in Suspended : q.op = "create" /\ q.at = "save"}
                             |-> CopiesIn(r, inflight)])

\* The bodies among `bodies` that the table has an id for.
Insertable(bodies) ==
    {body \in bodies : createCheck(body) = Passed => Assigned < MaxId}

\* The requests of each of the four operations on one contact.
Requests ==
    {[op |-> "create", body |-> body] : body \in CreateBodies}
        \cup {[op |-> "get", params |-> params] : params \in ParamsInputs}
        \cup {[op |-> "update", params |-> Params(id), body |-> body] :
                 id \in UpdateIds, body \in UpdateBodies}
        \cup {[op |-> "delete", params |-> params] : params \in ParamsInputs}

\* Lifecycle: a get under study, or an update of the first contact,
\* overlapping the creates of the contacts and the delete of the first of
\* them.
Init ==
    Started /\ subject \in
        {[op |-> "get", params |-> params] : params \in ParamsInputs}
            \cup {[op |-> "update", params |-> Params(One),
                    body |-> Body(AnaBia, Phone2)]}

Create == createContact(Insertable({Body(ArturDaniel, Phone1)}))

Get == getOneContactById({q.params : q \in Asked("get")})

Update == updateContact(Asked("update"))

Delete == deleteContact({Params(One)} \cup {q.params : q \in Asked("delete")})

Next == Create \/ Get \/ Update \/ Delete

Spec == Init /\ [][Next]_vars

\* Updates: an update of the first contact under study, carrying a name, a
\* name and a phone, or a phone, overlapping the creates of the contacts and
\* the delete of the first of them.
InitFrame ==
    Started /\ subject \in
        {[op |-> "update", params |-> Params(One), body |-> body] :
            body \in {Body(AnaBia, Undefined), Body(AnaBia, Phone2),
                       Body(Undefined, Phone2)}}

NextFrame == Create \/ Update \/ Delete

SpecFrame == InitFrame /\ [][NextFrame]_vars

\* Validation of create requests over a wide set of bodies.
InitValidation ==
    Started /\ subject \in {[op |-> "create", body |-> body] :
                               body \in ValidationBodies}

CreateAny == createContact(Insertable({q.body : q \in Asked("create")}))

Fetch == getOneContactById({Params(id) : id \in {One, Two, Seven}})

NextValidation == CreateAny \/ Fetch

SpecValidation == InitValidation /\ [][NextValidation]_vars

\* Pagination: one page request under study, overlapping the creates that
\* seed the table.
InitList ==
    Started /\ subject \in {[op |-> "list", query |-> query] :
                               query \in QueryInputs}

Seed == createContact({body \in {SeedBody} : Assigned < MaxSeed})

List == getAllContacts({q.query : q \in Asked("list")})

NextList == Seed \/ List

SpecList == InitList /\ [][NextList]_vars

\* The five operations: one request of any of them under study, overlapping
\* the create and the delete of the contact it is about.
InitRequests ==
    Started /\ subject \in Requests
                   \cup {[op |-> "list", query |-> query] :
                            query \in ListQueries}

\* The one contact that the overlapping requests are about.
CreateOne == createContact({body \in {Body(ArturDaniel, Phone1)} : Assigned = 0})

CreateSome ==
    createContact({body \in {Body(ArturDaniel, Phone1)} : Assigned = 0}
                      \cup Insertable({q.body : q \in Asked("create")}))

DeleteOne == deleteContact({Params(One)})

ListSome == getAllContacts({q.query : q \in Asked("list")})

NextRequests == CreateSome \/ Get \/ ListSome \/ Update \/ Delete

SpecRequests == InitRequests /\ [][NextRequests]_vars

\* Interleaving: every handler suspended at each of its awaits, any other
\* handler running meanwhile, and the clock.
InitConcurrent == Started /\ subject = [op |-> "none"]

FetchOne == getOneContactById({Params(One)})

ListAll ==
    getAllContacts({[page |-> Undefined, limit |-> Undefined, extra |-> <<>>]})

UpdateOne ==
    updateContact({[params |-> Params(One), body |-> body] :
                      body \in ConcurrentBodies})

NextConcurrent ==
    CreateOne \/ FetchOne \/ ListAll \/ UpdateOne \/ DeleteOne \/ Tick

SpecConcurrent == InitConcurrent /\ [][NextConcurrent]_vars

\* The handlers that write, suspended at each of their awaits, within one
\* instant of the clock.
NextWrites == CreateOne \/ UpdateOne \/ DeleteOne

SpecWrites == InitConcurrent /\ [][NextWrites]_vars

\* The handlers that write, suspended at each of their awaits, while time
\* passes; an update carries a name or a phone.
UpdateField ==
    updateContact({[params |-> Params(One), body |-> body] :
                      body \in {Body(AnaBia, Undefined),
                                 Body(Undefined, Phone2)}})

NextTimed == CreateOne \/ UpdateField \/ DeleteOne \/ Tick

SpecTimed == InitConcurrent /\ [][NextTimed]_vars

(* ------------------------------- claims -------------------------------- *)

\* The path parameters carry the id alone and it reads as the number id.
Names(params, id) ==
    /\ params.extra = <<>>
    /\ params.id # Undefined
    /\ Number(params.id) = Finite(FALSE, id, FALSE)

\* The handler of the suspended request r takes this step: r is no longer
\* suspended as it was, and not because a request that arrives ends its being
\* alone.
Leaves(r) ==
    /\ CopiesIn(r, inflight') < CopiesIn(r, inflight)
    /\ ~(r.alone /\ BagIn([r EXCEPT !.alone = FALSE], inflight'))

\* This step answers a request.
Answers ==
    \/ resp' # resp
    \/ BagCardinality(inflight') < BagCardinality(inflight)

\* C1: a create request with exactly a name and a phone that satisfy the
\* two patterns is answered 201 with a record that carries the id the table
\* assigned, and a getOneById of that id issued next is answered 200 with
\* the submitted name and phone and with createdAt equal to updatedAt.
C1_CreateThenGet ==
    /\ ( /\ resp.op = "create"
         /\ resp.req.body.extra = <<>>
         /\ nameRegex(resp.req.body.name)
         /\ phoneRegex(resp.req.body.phone) )
       => /\ resp.status = 201
          /\ resp.body.id \in 1..(nextId - 1)
          /\ resp.body \in store
    /\ ( /\ resp.op = "get"
         /\ resp.alone
         /\ prior.op = "create"
         /\ Names(resp.req.params, prior.body.id) )
       => /\ resp.status = 200
          /\ resp.body.id = prior.body.id
          /\ resp.body.name = prior.req.body.name
          /\ resp.body.phone = prior.req.body.phone
          /\ resp.body.createdAt = resp.body.updatedAt

\* C1 witness: the second contact, created with the name "Ana Bia X" while
\* the create of the first was suspended, is fetched by the request that
\* follows its creation.
C1_Witness ==
    /\ resp.op = "get"
    /\ resp.alone
    /\ resp.status = 200
    /\ prior.op = "create"
    /\ ~prior.alone
    /\ prior.req.body.name = AnaBiaX
    /\ prior.body.id = 2
    /\ Names(resp.req.params, 2)
    /\ resp.body.name = AnaBiaX

\* C2: an update of an existing contact whose body carries only a valid
\* phone goes on to save the contact with that phone, the name it had and an
\* updatedAt greater than its createdAt, and is not answered 400.
C2_PhoneOnlyUpdate ==
    [][\A r \in Suspended :
         ( /\ Leaves(r)
           /\ r.op = "update"
           /\ r.at = "found"
           /\ r.contact # Null
           /\ r.contact.createdAt < clock
           /\ r.req.body.name = Undefined
           /\ r.req.body.extra = <<>>
           /\ phoneRegex(r.req.body.phone) )
         => /\ resp' = resp
            /\ \E q \in BagToSet(inflight') :
                   /\ q.op = "update"
                   /\ q.at = "save"
                   /\ q.req = r.req
                   /\ q.entity.id = r.contact.id
                   /\ q.entity.phone = r.req.body.phone
                   /\ q.entity.name = r.contact.name
                   /\ q.entity.updatedAt > q.entity.createdAt]_vars

\* C3: once a delete of an id, handled with no other request in flight, was
\* answered 204, no row of that id is stored, and every later getOneById of
\* that id is answered 404, whatever was requested in between.
C3_DeleteThenGet ==
    \A d \in removed :
        d.alone =>
            /\ \A c \in store : c.id # d.id
            /\ (resp.op = "get" /\ Names(resp.req.params, d.id))
                  => /\ resp.status = 404
                     /\ resp.body = [message |-> "Contact not found"]

\* C3 witness: contact 1 was deleted with no other request in flight, contact
\* 2 was created afterwards and is stored, and the last request, a
\* getOneById of 1, was answered 404.
C3_Witness ==
    /\ [id |-> 1, alone |-> TRUE] \in removed
    /\ resp.op = "get"
    /\ Names(resp.req.params, 1)
    /\ resp.status = 404
    /\ \E c \in store : c.id = 2

\* The whitespace-separated words of a text.
RECURSIVE Words(_)
Words(s) ==
    IF Len(s) = 0 THEN <<>>
    ELSE IF IsSpace(s[1]) THEN Words(Tail(s))
    ELSE LET n == CHOOSE k \in 1..Len(s) :
                      /\ AllNonSpace(s, 1, k)
                      /\ k = Len(s) \/ IsSpace(s[k + 1])
         IN  <<SubSeq(s, 1, n)>> \o Words(SubSeq(s, n + 1, Len(s)))

\* At least two whitespace-separated words, each of length 3 or more.
TwoWordsOfThree(s) ==
    /\ Len(Words(s)) >= 2
    /\ \A i \in 1..Len(Words(s)) : Len(Words(s)[i]) >= 3

\* Exactly 11 digits, the third of them 9.
ElevenDigitsThirdNine(s) == Len(s) = 11 /\ AllDigits(s) /\ s[3] = "9"

\* C4: every stored contact has a name of at least two whitespace-separated
\* words, each of length 3 or more, and a phone of exactly 11 digits whose
\* third digit is 9.
C4_StoredFieldsValid ==
    \A c \in store : TwoWordsOfThree(c.name) /\ ElevenDigitsThirdNine(c.phone)

\* A page or limit parameter that reads as an integer of at least 1.
PositiveInteger(text) ==
    LET n == Number(text) IN IsInteger(n) /\ ~n.neg /\ n.int >= 1

\* A query of page and limit alone, each absent or a positive integer.
ValidPaging(query) ==
    /\ query.extra = <<>>
    /\ query.page = Undefined \/ PositiveInteger(query.page)
    /\ query.limit = Undefined \/ PositiveInteger(query.limit)

\* The page and the limit that a valid query asks for.
PageAsked(query) == IF query.page = Undefined THEN 1 ELSE Number(query.page).int

LimitAsked(query) == IF query.limit = Undefined THEN 10 ELSE Number(query.limit).int

Min(a, b) == IF a < b THEN a ELSE b

\* C5: for a valid page p and limit l the repository is asked to skip
\* (p - 1) * l rows and to take l, and the response echoes p and l; over a
\* table of N contacts, no other request being handled meanwhile, a 200
\* response carries total = N and min(l, N - (p - 1) * l) contacts.
C5_PageContents ==
    [][(Answers /\ resp'.op = "list" /\ ValidPaging(resp'.req.query)) =>
          LET p == PageAsked(resp'.req.query)
              l == LimitAsked(resp'.req.query)
              N == Cardinality(store)
          IN  /\ resp'.req.asked = <<Finite(FALSE, (p - 1) * l, FALSE), l>>
              /\ resp'.status \in {200, 404}
              /\ resp'.body.page = p
              /\ resp'.body.limit = l
              /\ (resp'.alone /\ resp'.status = 200) =>
                   /\ store' = store
                   /\ resp'.body.total = N
                   /\ Len(resp'.body.contacts) = Min(l, N - (p - 1) * l)]_vars

\* C5 witness: page 2 of a table of 3 contacts, 2 to the page, holds the
\* third contact alone.
C5_Witness ==
    /\ resp.op = "list"
    /\ resp.alone
    /\ resp.status = 200
    /\ Cardinality(store) = 3
    /\ resp.req.query.page = <<"2">>
    /\ resp.req.query.limit = <<"2">>
    /\ resp.body.total = 3
    /\ Len(resp.body.contacts) = 1

\* C6: a page request with valid parameters, no other request being handled
\* meanwhile, is answered 200 with page, limit, total and contacts exactly
\* when the page holds a contact; an empty page is answered 404 with message,
\* page and limit alone.
C6_EmptyPageNotFound ==
    [][( /\ Answers
         /\ resp'.op = "list"
         /\ resp'.alone
         /\ ValidPaging(resp'.req.query) ) =>
          LET p == PageAsked(resp'.req.query)
              l == LimitAsked(resp'.req.query)
              N == Cardinality(store)
          IN  IF (p - 1) * l < N
              THEN /\ resp'.status = 200
                   /\ DOMAIN resp'.body = {"page", "limit", "total", "contacts"}
                   /\ Len(resp'.body.contacts) >= 1
              ELSE /\ resp'.status = 404
                   /\ DOMAIN resp'.body = {"message", "page", "limit"}
                   /\ resp'.body.message = "No contacts found."]_vars

\* C6 witness: page 3 of a table of 2 contacts, 1 to the page, is empty and
\* answered 404.
C6_Witness ==
    /\ resp.op = "list"
    /\ resp.alone
    /\ Cardinality(store) = 2
    /\ resp.req.query.page = <<"3">>
    /\ resp.req.query.limit = <<"1">>
    /\ resp.status = 404
    /\ resp.body.page = 3

\* C7: a page request is answered 400, and the repository is not asked,
\* exactly when the query holds a key other than page and limit or holds a
\* page or a limit that is no integer of at least 1; an absent page is 1 and
\* an absent limit is 10.
C7_PagingValidation ==
    resp.op = "list" =>
        LET query == resp.req.query
        IN  /\ resp.status = 400 <=>
                 \/ query.extra # <<>>
                 \/ query.page # Undefined /\ ~PositiveInteger(query.page)
                 \/ query.limit # Undefined /\ ~PositiveInteger(query.limit)
            /\ resp.status = 400 => resp.req.asked = <<>>
            /\ (resp.status # 400 /\ query.page = Undefined) => resp.body.page = 1
            /\ (resp.status # 400 /\ query.limit = Undefined) => resp.body.limit = 10

\* C8: create checks the presence of name and phone, then the extraneous
\* keys, then the name pattern, then the phone pattern, and answers 400 with
\* the message of the first check that fails; the four messages differ.
C8_CreateCheckOrder ==
    resp.op = "create" =>
        LET body       == resp.req.body
            missing    == ~Truthy(body.name) \/ ~Truthy(body.phone)
            extraneous == body.extra # <<>>
            badName    == ~nameRegex(body.name)
            badPhone   == ~phoneRegex(body.phone)
            required   == "Name and phone are required."
            invalid    == "Invalid parameters: " \o Join(body.extra)
            namePat    == "Name must contain at least two words, each with a minimum of three letters."
            phonePat   == "Phone must be in the format XX9XXXXXXXX."
            first      == IF missing THEN required
                          ELSE IF extraneous THEN invalid
                          ELSE IF badName THEN namePat
                          ELSE phonePat
        IN  /\ Cardinality({required, invalid, namePat, phonePat}) = 4
            /\ (missing \/ extraneous \/ badName \/ badPhone) =>
                 /\ resp.status = 400
                 /\ resp.body = [message |-> first]

\* C8 witness: a body with an extraneous key and no phone was answered with
\* the message of the presence check.
C8_Witness ==
    /\ resp.op = "create"
    /\ resp.req.body.phone = Undefined
    /\ resp.req.body.name = ArturDaniel
    /\ resp.req.body.extra = <<"email">>
    /\ resp.status = 400
    /\ resp.body.message = "Name and phone are required."

\* C9: a create request whose body holds a non-empty name and a non-empty
\* phone and nothing else is answered 201 exactly when the name is made of
\* at least two whitespace-separated words, each of length 3 or more, with
\* no whitespace before the first, and the phone is two digits, 9 and eight
\* digits; it is answered 400 otherwise.
C9_CreateAcceptance ==
    ( /\ resp.op = "create"
      /\ resp.req.body.extra = <<>>
      /\ Truthy(resp.req.body.name)
      /\ Truthy(resp.req.body.phone) )
    => /\ resp.status \in {201, 400}
       /\ resp.status = 201 <=>
            /\ IsNonSpace(resp.req.body.name[1])
            /\ TwoWordsOfThree(resp.req.body.name)
            /\ ElevenDigitsThirdNine(resp.req.body.phone)

\* C10: an update whose lookup finds no contact of the id is answered 404,
\* whatever its body holds; an update whose lookup finds the contact is
\* answered 400 or goes on to save, so that a 400 of update is only ever
\* given for an id that is stored at the moment of the lookup.
C10_LookupFirst ==
    [][\A r \in Suspended :
         /\ (Leaves(r) /\ r.op = "update" /\ r.at = "findOneBy")
            => \E q \in BagToSet(inflight') :
                  /\ inflight' = Proceed(r, q)
                  /\ q.op = "update"
                  /\ q.at = "found"
                  /\ q.req = r.req
                  /\ q.contact = Null
                        <=> ~\E c \in store : Names(r.req.params, c.id)
                  /\ q.contact # Null
                        => q.contact \in store
                             /\ Names(r.req.params, q.contact.id)
         /\ (Leaves(r) /\ r.op = "update" /\ r.at = "found")
            =>
            IF r.contact = Null
            THEN /\ resp'.op = "update"
                 /\ resp'.req = r.req
                 /\ resp'.status = 404
                 /\ resp'.body = [message |-> "Contact not found."]
                 /\ inflight' = Finish(r)
            ELSE \/ /\ resp'.op = "update"
                    /\ resp'.req = r.req
                    /\ resp'.status = 400
                    /\ inflight' = Finish(r)
                 \/ /\ resp' = resp
                    /\ \E q \in BagToSet(inflight') :
                          /\ q.op = "update"
                          /\ q.at = "save"
                          /\ q.req = r.req
                          /\ inflight' = Proceed(r, q)]_vars

\* C10 witness: the lookup of an update of id 1 with an extraneous key in its
\* body ran before the insert of contact 1, found no contact, and the update
\* was answered 404 after the contact had been stored.
C10_Witness ==
    /\ resp.op = "update"
    /\ resp.req.body.extra # <<>>
    /\ resp.req.params.id = One
    /\ resp.status = 404
    /\ \E c \in store : c.id = 1

\* C11: an update of a stored contact whose body holds no name and no
\* extraneous key is answered 400 with the message of the name pattern and
\* writes nothing, also when the body holds a valid phone.
C11_NamelessUpdateRejected ==
    [][\A r \in Suspended :
         ( /\ Leaves(r)
           /\ r.op = "update"
           /\ r.at = "found"
           /\ r.contact # Null
           /\ r.req.body.name = Undefined
           /\ r.req.body.extra = <<>> )
         => /\ resp'.op = "update"
            /\ resp'.req = r.req
            /\ resp'.status = 400
            /\ resp'.body = [message |-> "Name must contain at least two words, each with a minimum of three letters."]
            /\ inflight' = Finish(r)
            /\ store' = store]_vars

\* C11 witness: an update of a stored contact with a valid phone and no name
\* was answered 400 with the message of the name pattern, and the contact
\* still has the phone it was created with.
C11_Witness ==
    /\ resp.op = "update"
    /\ resp.req.body = Body(Undefined, Phone2)
    /\ resp.status = 400
    /\ resp.body.message = "Name must contain at least two words, each with a minimum of three letters."
    /\ \E c \in store : Names(resp.req.params, c.id) /\ c.phone = Phone1

\* C12: the step that answers a request of any of the five operations with
\* 400 or 404 leaves the table as it was: the same contacts with the same
\* fields, no id consumed and no id removed.
C12_FailureWritesNothing ==
    [][(Answers /\ resp'.status \in {400, 404})
       => /\ store' = store
          /\ nextId' = nextId
          /\ removed' = removed]_vars

\* C12 witness: an update of a stored contact with a valid name and a phone
\* that fails its pattern was answered 400, and the contact still has the
\* name and the phone it was created with.
C12_Witness ==
    /\ resp.op = "update"
    /\ resp.req.body = Body(AnaBia, NoNine)
    /\ resp.status = 400
    /\ \E c \in store :
          /\ Names(resp.req.params, c.id)
          /\ c.name = ArturDaniel
          /\ c.phone = Phone1
          /\ c.updatedAt = c.createdAt

\* C13: the save of an update, no other request being handled meanwhile,
\* changes, in the contact it names, at most the name and the phone its body
\* supplies and updatedAt: id and createdAt and a field the body does not hold
\* keep their values, a supplied field holds its old or its supplied value,
\* and every other stored contact is as before; the answer is 200 with the
\* contact as saved.
C13_UpdateFrame ==
    [][\A r \in Suspended :
         (Leaves(r) /\ r.op = "update" /\ r.alone)
         => /\ r.at = "save"
               => \E c \in store : \E d \in store' :
                     /\ Names(r.req.params, c.id)
                     /\ d = r.entity
                     /\ d.id = c.id
                     /\ d.createdAt = c.createdAt
                     /\ r.req.body.name = Undefined => d.name = c.name
                     /\ r.req.body.phone = Undefined => d.phone = c.phone
                     /\ d.name \in {c.name, r.req.body.name}
                     /\ d.phone \in {c.phone, r.req.body.phone}
                     /\ store' \ {d} = store \ {c}
            /\ r.at = "saved"
               => /\ resp'.op = "update"
                  /\ resp'.status = 200
                  /\ resp'.req = r.req
                  /\ resp'.body = r.entity
                  /\ store' = store]_vars

\* C13 witness: an update holding only a name, handled alone, was answered
\* 200; the contact has the new name and the phone it was created with, and
\* another contact is stored untouched beside it.
C13_Witness ==
    /\ resp.op = "update"
    /\ resp.alone
    /\ resp.status = 200
    /\ resp.req.body = Body(AnaBia, Undefined)
    /\ resp.body \in store
    /\ resp.body.name = AnaBia
    /\ resp.body.phone = Phone1
    /\ \E o \in store :
          /\ o.id # resp.body.id
          /\ o.name = ArturDaniel
          /\ o.updatedAt = o.createdAt

\* C14: when updates of one id interleave, each of them that loaded the
\* contact goes on to save and is answered 200 with the entity it built from
\* the row it loaded, and after its save the table holds exactly that entity
\* for the id: the name, phone and updatedAt of the save that ran last,
\* whatever an earlier save had written, so a field that only the earlier save
\* changed is back at the value the later request loaded.
C14_LastWriteWins ==
    [][\A r \in Suspended :
         (Leaves(r) /\ r.op = "update")
         => /\ ( /\ r.at = "found"
                 /\ r.contact # Null
                 /\ r.req.body \in ConcurrentBodies )
               => \E q \in BagToSet(inflight') :
                     /\ inflight' = Proceed(r, q)
                     /\ q.op = "update"
                     /\ q.at = "save"
                     /\ q.req = r.req
                     /\ q.entity.id = r.contact.id
                     /\ q.entity.name = r.req.body.name
                     /\ q.entity.phone =
                           IF Truthy(r.req.body.phone)
                           THEN r.req.body.phone
                           ELSE r.contact.phone
            /\ r.at = "save"
               => /\ inflight' = Proceed(r, [r EXCEPT !.at = "saved"])
                  /\ {c \in store' : c.id = r.entity.id} = {r.entity}
            /\ r.at = "saved"
               => /\ inflight' = Finish(r)
                  /\ resp'.op = "update"
                  /\ resp'.status = 200
                  /\ resp'.req = r.req
                  /\ resp'.body = r.entity
                  /\ store' = store]_vars

\* C14 witness: two updates of contact 1 both loaded the row as created; the
\* one with a name and a phone saved first, the one with a name only saved
\* over it, and neither is answered yet: the table holds the later entity,
\* whose phone is the one it loaded and not the one the earlier save had
\* written.
C14_Witness ==
    \E r \in Suspended : \E q \in Suspended :
        /\ r.op = "update"
        /\ r.at = "saved"
        /\ r.req.body = Body(AnaBia, Undefined)
        /\ r.entity.phone = Phone1
        /\ q.op = "update"
        /\ q.at = "saved"
        /\ q.entity.name = AnaTabBia
        /\ q.entity.phone = Phone2
        /\ store = {r.entity}

\* C15: in every state reached by interleaved create, update and delete
\* requests, each stored contact has updatedAt >= createdAt.
C15_UpdatedNotBeforeCreated ==
    \A c \in store : c.updatedAt >= c.createdAt

\* C15 witness: the stored contact was written by an update that ran after the
\* clock had advanced, while another update of the same contact is in flight.
C15_Witness ==
    /\ \E c \in store : c.name = AnaBia /\ c.updatedAt > c.createdAt
    /\ \E r \in Suspended : r.op = "update"

\* C16: once a delete of an id was answered 204, the table holds no contact of
\* that id, also when an update that had loaded the contact before the delete
\* removed it calls save afterwards.
C16_DeletedStaysAbsent ==
    \A c \in store : \A d \in removed : c.id # d.id

====
